---------------------------- MODULE Spec2Model ----------------------------
(***************************************************************************)
(* Model of the emotion gateway client                                     *)
(*   src/python/emotion_gateway_client/emotion_gateway_client/encoders.py  *)
(*   src/python/emotion_gateway_client/emotion_gateway_client/runner.py    *)
(*                                                                         *)
(* Five specifications share this module.                                  *)
(*                                                                         *)
(*   EncSpec  AACEncoder: one caller thread issuing start / encode /       *)
(*            get_packets / close in any order, the ffmpeg child process,  *)
(*            and the daemon thread running _drain_stdout.  close() is     *)
(*            split at every access to self.proc, because the drain thread *)
(*            reads self.proc concurrently.                                *)
(*                                                                         *)
(*   Spec     run_client: the asyncio tasks recv_loop, audio_sender,       *)
(*            video_sender, vital_sender and run_client itself.  A step is *)
(*            the code a coroutine runs between two awaits.                *)
(*                                                                         *)
(*   CoreSpec run_client with audio and video disabled, and CoreFair, the  *)
(*            same with the event loop's fairness towards recv_loop.       *)
(*                                                                         *)
(*   DispSpec recv_loop alone, with the content of every inbound message   *)
(*            and what the loop prints for it.                             *)
(*                                                                         *)
(*   TargetSpec  the URL and headers run_client connects with, for every   *)
(*            ClientConfig.                                                *)
(***************************************************************************)
EXTENDS Integers, Sequences, FiniteSets, TLC

(***************************************************************************)
(* Bounds of the model.                                                    *)
(***************************************************************************)
\* PCM units written to the child's stdin and not encoded yet
MaxPush == 2
\* calls the caller thread makes on one AACEncoder
MaxCalls == 5

\* parameters in the query of cfg.ws_url
MaxQuery == 1
\* characters of cfg.api_token
MaxTok == 1

\* a producer acquires another source unit while its index is below this
MaxIndex == 1
\* packets one source unit yields (get_packets, H264Encoder.encode)
MaxPkts == 2
\* packets H264Encoder.flush yields
MaxFlush == 1

\* queue.put(None), encoders.py line 190: the terminator item
NoneItem == 0

Tasks == {"recv", "audio", "video", "vital"}
Producers == {"audio", "video", "vital"}
Encoded == {"audio", "video"}
Senders == {"audio", "video", "vital", "text"}

VARIABLES
    \* ---- AACEncoder (encoders.py 92-229) ----
    proc,        \* self.proc: "None" or "Popen"
    reader,      \* self.reader: "None" or "Thread"
    queue,       \* self.queue: sequence of chunk ids and NoneItem
    pstate,      \* the ffmpeg child: "absent", "running", "exited"
    stdinOpen,   \* the caller's end of the child's stdin is open
    pending,     \* PCM units written to stdin the child has not encoded yet
    pipe,        \* chunks the child wrote to stdout, not read yet
    nchunks,     \* chunks the child has written to stdout so far
    terminates,  \* Popen.terminate() calls issued
    kills,       \* Popen.kill() calls issued
    dpc,         \* position of the thread running _drain_stdout
    cpc,         \* position of the caller thread inside close()
    lastCall,    \* the method the caller called last
    ncalls,      \* calls made so far
    startResult, \* what start() returned: "none", "True", "False"
    lastGot,     \* the list the last get_packets() returned
    returned,    \* chunk ids some get_packets() has returned
    closes,      \* close() calls that have returned since start() succeeded
    atOnce,      \* the situations in which a close() returned at line 214
    \* ---- run_client and its tasks (runner.py 40-296) ----
    stop,        \* stop_event.is_set()
    conn,        \* the websocket: "open" or "closed"
    opt,         \* enable_audio, enable_video, enable_vital,
                 \* send_initial_text, and whether cfg.warmup_sec > 0
    rc,          \* the await run_client is at
    pc,          \* the await each task is at
    outcome,     \* "none" (not created), "pending", or how the task ended
    cancelReq,   \* Task.cancel() was called and CancelledError not yet raised
    sent,        \* per modality, the index carried by each envelope handed
                 \* to ws.send, in order
    sending,     \* senders suspended inside await ws.send(...)
    chunk_idx,   \* audio_sender's chunk_idx
    frame_idx,   \* video_sender's frame_idx
    arem,        \* audio_sender: packets of the for loop still to send
    vrem,        \* video_sender: packets of the for loop still to send
    vcause,      \* how video_sender left its try block
    tdlog,       \* per producer, the teardown steps performed, in order
    running,     \* the producers that passed their prerequisite checks
    wokenBy,     \* the done set asyncio.wait returned with
    shutdown,    \* asyncio.run has cancelled the remaining tasks
    \* ---- recv_loop's classification (runner.py 42-87) ----
    msg,         \* the inbound message recv_loop handled last
    events,      \* what recv_loop printed for it, in order
    before,      \* the kind of the message handled before it
    \* ---- the connection target (protocol.py 16-32, runner.py 260-261) ----
    cfg,         \* ws_url, api_token and token_in_header of the ClientConfig
    target,      \* gateway_url and extra_headers, once line 260-261 ran
    \* ---- audio_sender's encoder, as the loop sees it ----
    pipeline,    \* "none", "up" (ffmpeg runs), "broken" (ffmpeg has exited
                 \* and its output is consumed: stdin.write raises)
    afault       \* the I/O failure audio_sender's loop met last: "none",
                 \* "read", "pipe" or "send"

encVars == <<proc, reader, queue, pstate, stdinOpen, pending, pipe, nchunks,
             terminates, kills, dpc, cpc, lastCall, ncalls, startResult,
             lastGot, returned, closes, atOnce>>

\* what AACEncoder owns or drives: everything but the call bookkeeping
pipelineState == <<proc, reader, queue, pstate, stdinOpen, pending, pipe,
                   nchunks, terminates, kills, dpc>>

sessVars == <<stop, conn, opt, rc, pc, outcome, cancelReq, sent, sending,
              chunk_idx, frame_idx, arem, vrem, vcause, tdlog, running,
              wokenBy, shutdown, msg, events, before, cfg, target,
              pipeline, afault>>

\* what only recv_loop's classification and the target computation write
ioVars == <<msg, events, before, cfg, target>>

audioPipe == <<pipeline, afault>>

vars == <<encVars, sessVars>>

Range(s) == {s[i] : i \in 1..Len(s)}

(***************************************************************************)
(* Inbound messages as recv_loop reads them (runner.py 44-82): whether     *)
(* json.loads succeeds and yields a dict, and the fields the loop looks at.*)
(***************************************************************************)
\* data.get("code"): absent, present but falsy (0, ""), or truthy
Codes == {"none", "zero", "set"}

Blank == [form |-> "object", code |-> "none", mtype |-> "other",
          final |-> FALSE, payload |-> "none", delta |-> "none",
          emotion |-> FALSE, usage |-> FALSE]

\* line 44 raises ("unparseable"), or line 49 finds no dict ("scalar")
Malformed == {[Blank EXCEPT !.form = f] : f \in {"unparseable", "scalar"}}

\* payload: None or "" ("none"), another non-dict value ("text"), a dict
\* ("object") with delta absent, "" or a text and emotion_result set or not
Chunks ==
    {m \in [form : {"object"}, code : Codes, mtype : {"chunk"},
            final : BOOLEAN, payload : {"none", "text", "object"},
            delta : {"none", "empty", "text"}, emotion : BOOLEAN,
            usage : BOOLEAN] :
        m.payload # "object" => (m.delta = "none" /\ ~m.emotion)}

\* the other message types; "other" stands for every type but these
NonChunks ==
    {[Blank EXCEPT !.code = c, !.mtype = t] :
        c \in Codes, t \in {"ack", "pong", "other"}}

Inbound == Malformed \cup Chunks \cup NonChunks

\* nothing received yet
NoMessage == [Blank EXCEPT !.form = "none"]

(***************************************************************************)
(* URLs and tokens (protocol.py 16-32).  A text is a sequence of           *)
(* characters; a query is a sequence of <<key, value>> pairs whose values  *)
(* are percent-encoded.                                                    *)
(***************************************************************************)
TokenChars == {"a", "+", " "}

\* the encoded forms urllib produces and accepts for TokenChars
EncodedChars == {"a", "%2B", "+"}

QueryKeys == {"token", "user"}

SeqsUpTo(S, n) == UNION {[1..k -> S] : k \in 0..n}

\* Optional[str]: None
NoneText == [some |-> FALSE, text |-> <<>>]

Some(t) == [some |-> TRUE, text |-> t]

\* cfg.api_token: None, or a text ("" included)
Tokens == {NoneText} \cup {Some(t) : t \in SeqsUpTo(TokenChars, MaxTok)}

\* Optional[Dict[str, str]]: None
NoHeaders == [some |-> FALSE, Authorization |-> <<>>]

\* cfg.ws_url: the query part; scheme, host and path are left alone by
\* urlparse / urlunparse
Urls ==
    {[query |-> q] :
        q \in SeqsUpTo(QueryKeys \X SeqsUpTo(EncodedChars, 1), MaxQuery)}

Cfgs == [ws_url : Urls, api_token : Tokens, token_in_header : BOOLEAN]

\* ClientConfig without a token
DefaultCfg == [ws_url |-> [query |-> <<>>], api_token |-> NoneText,
               token_in_header |-> FALSE]

\* gateway_url and extra_headers not computed yet
NoTarget == [built |-> FALSE, url |-> [query |-> <<>>], headers |-> NoHeaders]

\* urllib.parse.quote_plus, character by character
QuotePlus(c) ==
    CASE c = "a" -> "a"
      [] c = " " -> "+"
      [] c = "+" -> "%2B"

\* urllib.parse.unquote_plus as parse_qsl applies it to names and values
UnquotePlus(e) ==
    CASE e = "a" -> "a"
      [] e = "+" -> " "
      [] e = "%2B" -> "+"

QuoteText(t) == [i \in DOMAIN t |-> QuotePlus(t[i])]

UnquoteText(v) == [i \in DOMAIN v |-> UnquotePlus(v[i])]

\* parse_qsl(parsed.query, keep_blank_values=True), line 21
ParseQsl(q) == [i \in DOMAIN q |-> <<q[i][1], UnquoteText(q[i][2])>>]

HasKey(d, k) == \E i \in DOMAIN d : d[i][1] = k

\* d[k] = v on a dict: the key keeps its place, a new key goes last
SetItem(d, k, v) ==
    IF HasKey(d, k)
       THEN [i \in DOMAIN d |-> IF d[i][1] = k THEN <<k, v>> ELSE d[i]]
       ELSE Append(d, <<k, v>>)

\* dict(pairs), line 21: a repeated name keeps its last value
RECURSIVE DictOf(_)
DictOf(pairs) ==
    IF pairs = <<>>
       THEN <<>>
       ELSE LET n == Len(pairs)
            IN  SetItem(DictOf(SubSeq(pairs, 1, n - 1)),
                        pairs[n][1], pairs[n][2])

\* query_items.get("token"), line 22: truthy when present and not ""
GetTruthy(d, k) == \E i \in DOMAIN d : d[i][1] = k /\ d[i][2] # <<>>

\* urlencode(query_items, doseq=True), line 25
UrlEncode(d) == [i \in DOMAIN d |-> <<d[i][1], QuoteText(d[i][2])>>]

\* protocol.py lines 16-26
build_gateway_ws_url(base_url, token) ==
    IF ~token.some \/ token.text = <<>>
       THEN base_url
       ELSE LET query_items == DictOf(ParseQsl(base_url.query))
            IN  IF GetTruthy(query_items, "token")
                   THEN base_url
                   ELSE [base_url EXCEPT !.query =
                            UrlEncode(SetItem(query_items, "token",
                                              token.text))]

\* f"Bearer {token}", line 32
Bearer(t) == <<"Bearer ">> \o t

\* protocol.py lines 29-32
build_gateway_headers(token, token_in_header) ==
    IF ~token.some \/ token.text = <<>> \/ ~token_in_header
       THEN NoHeaders
       ELSE [some |-> TRUE, Authorization |-> Bearer(token.text)]

\* the variant of BuildTarget that hands the token to both functions
BuildTargetBoth(c) ==
    [built |-> TRUE,
     url |-> build_gateway_ws_url(c.ws_url, c.api_token),
     headers |-> build_gateway_headers(c.api_token, c.token_in_header)]

\* runner.py lines 260-261
BuildTarget(c) ==
    [built |-> TRUE,
     url |-> build_gateway_ws_url(c.ws_url,
                IF ~c.token_in_header THEN c.api_token ELSE NoneText),
     headers |-> build_gateway_headers(c.api_token, c.token_in_header)]

\* no session: run_client has not been called, or has not connected yet
SessQuiet ==
    /\ stop = FALSE
    /\ conn = "closed"
    /\ opt = [audio |-> FALSE, video |-> FALSE, vital |-> FALSE,
              text |-> FALSE, warmup |-> FALSE]
    /\ rc = "none"
    /\ pc = [t \in Tasks |-> "none"]
    /\ outcome = [t \in Tasks |-> "none"]
    /\ cancelReq = [t \in Tasks |-> FALSE]
    /\ sent = [m \in Encoded |-> <<>>]
    /\ sending = {}
    /\ chunk_idx = 0
    /\ frame_idx = 0
    /\ arem = 0
    /\ vrem = 0
    /\ vcause = "none"
    /\ tdlog = [p \in Producers |-> <<>>]
    /\ running = {}
    /\ wokenBy = {}
    /\ shutdown = FALSE
    /\ msg = NoMessage
    /\ events = <<>>
    /\ before = "none"
    /\ target = NoTarget
    /\ pipeline = "none"
    /\ afault = "none"

SessIdle == SessQuiet /\ cfg = DefaultCfg

(***************************************************************************)
(* AACEncoder.__init__                                                     *)
(***************************************************************************)
EncFresh ==
    /\ proc = "None"
    /\ reader = "None"
    /\ queue = <<>>
    /\ pstate = "absent"
    /\ stdinOpen = FALSE
    /\ pending = 0
    /\ pipe = <<>>
    /\ nchunks = 0
    /\ terminates = 0
    /\ kills = 0
    /\ dpc = "idle"
    /\ cpc = "idle"
    /\ lastCall = "none"
    /\ ncalls = 0
    /\ startResult = "none"
    /\ lastGot = <<>>
    /\ returned = {}
    /\ closes = 0
    /\ atOnce = {}

EncInit == EncFresh /\ SessIdle

\* the caller thread is between two calls and may make another one
CallerFree == cpc = "idle" /\ ncalls < MaxCalls

Called(m) == lastCall' = m /\ ncalls' = ncalls + 1

(***************************************************************************)
(* AACEncoder.start: Popen raises (the binary is absent or cannot be       *)
(* launched) and start returns False, or the child runs and the drain      *)
(* thread is started.  runner.py calls start once per encoder (line 133).  *)
(***************************************************************************)
\* mutant: the drain thread is started although Popen raised
StartFailsThreadStarted ==
    /\ UNCHANGED <<proc, pstate, stdinOpen>>
    /\ reader' = "Thread"
    /\ dpc' = "entry"
    /\ startResult' = "False"

StartFails ==
    /\ UNCHANGED <<proc, reader, pstate, stdinOpen, dpc>>
    /\ startResult' = "False"

StartLaunches ==
    /\ proc' = "Popen"
    /\ pstate' = "running"
    /\ stdinOpen' = TRUE
    /\ reader' = "Thread"
    /\ dpc' = "entry"
    /\ startResult' = "True"

start ==
    /\ CallerFree
    /\ startResult = "none"
    /\ Called("start")
    /\ \/ StartFails
       \/ StartLaunches
    /\ UNCHANGED <<queue, pending, pipe, nchunks, terminates, kills, cpc,
                   lastGot, returned, closes, atOnce>>
    /\ UNCHANGED sessVars

(***************************************************************************)
(* AACEncoder.encode: no handle, no write; a write to a child that is gone *)
(* raises BrokenPipeError, which is swallowed.                             *)
(***************************************************************************)
EncodeWrites == proc # "None" /\ stdinOpen /\ pstate = "running"

encode ==
    /\ CallerFree
    /\ Called("encode")
    /\ IF EncodeWrites
          THEN pending < MaxPush /\ pending' = pending + 1
          ELSE pending' = pending
    /\ UNCHANGED <<proc, reader, queue, pstate, stdinOpen, pipe, nchunks,
                   terminates, kills, dpc, cpc, startResult, lastGot,
                   returned, closes, atOnce>>
    /\ UNCHANGED sessVars

(***************************************************************************)
(* AACEncoder.get_packets: pops until the queue is empty or the item is    *)
(* None; the None it stops at is consumed.                                 *)
(***************************************************************************)
FirstNone(q) ==
    IF \E i \in 1..Len(q) : q[i] = NoneItem
       THEN CHOOSE i \in 1..Len(q) :
                /\ q[i] = NoneItem
                /\ \A j \in 1..(i - 1) : q[j] # NoneItem
       ELSE Len(q) + 1

PacketsOf(q) == SubSeq(q, 1, FirstNone(q) - 1)

RestOf(q) == SubSeq(q, FirstNone(q) + 1, Len(q))

get_packets ==
    /\ CallerFree
    /\ Called("get_packets")
    /\ lastGot' = PacketsOf(queue)
    /\ queue' = RestOf(queue)
    /\ returned' = returned \cup Range(PacketsOf(queue))
    /\ UNCHANGED <<proc, reader, pstate, stdinOpen, pending, pipe, nchunks,
                   terminates, kills, dpc, cpc, startResult, closes, atOnce>>
    /\ UNCHANGED sessVars

(***************************************************************************)
(* AACEncoder.close, one step per access to self.proc.                     *)
(***************************************************************************)
\* line 214: if not self.proc: return
CloseReturnsAtOnce == proc = "None"

\* where the pipeline stands when close() is called
CloseSituation ==
    IF startResult = "none" THEN "before_start"
    ELSE IF startResult = "False" THEN "after_failed_start"
    ELSE IF closes > 0 THEN "after_close"
    ELSE "started"

close_call ==
    /\ CallerFree
    /\ Called("close")
    /\ IF CloseReturnsAtOnce
          THEN /\ cpc' = "idle"
               /\ closes' = IF startResult = "True" THEN closes + 1 ELSE closes
               /\ atOnce' = atOnce \cup {CloseSituation}
          ELSE /\ cpc' = "close_stdin"
               /\ UNCHANGED <<closes, atOnce>>
    /\ UNCHANGED <<proc, reader, queue, pstate, stdinOpen, pending, pipe,
                   nchunks, terminates, kills, dpc, startResult, lastGot,
                   returned>>
    /\ UNCHANGED sessVars

\* lines 217-221: self.proc.stdin.close(), errors swallowed
close_stdin ==
    /\ cpc = "close_stdin"
    /\ stdinOpen' = FALSE
    /\ cpc' = "close_poll"
    /\ UNCHANGED <<proc, reader, queue, pstate, pending, pipe, nchunks,
                   terminates, kills, dpc, lastCall, ncalls, startResult,
                   lastGot, returned, closes, atOnce>>
    /\ UNCHANGED sessVars

\* the variant of PollIsNone that does not ask
PollSkipped == TRUE

\* line 222: self.proc.poll() is None
PollIsNone == pstate = "running"

\* lines 222-223: terminate only a child that poll() reports alive
close_poll ==
    /\ cpc = "close_poll"
    /\ IF PollIsNone
          THEN terminates' = terminates + 1 /\ cpc' = "close_wait"
          ELSE terminates' = terminates /\ cpc' = "close_finally"
    /\ UNCHANGED <<proc, reader, queue, pstate, stdinOpen, pending, pipe,
                   nchunks, kills, dpc, lastCall, ncalls, startResult,
                   lastGot, returned, closes, atOnce>>
    /\ UNCHANGED sessVars

\* line 225: wait(timeout=2) returns once the child has exited
close_wait_returns ==
    /\ cpc = "close_wait"
    /\ pstate = "exited"
    /\ cpc' = "close_finally"
    /\ UNCHANGED <<proc, reader, queue, pstate, stdinOpen, pending, pipe,
                   nchunks, terminates, kills, dpc, lastCall, ncalls,
                   startResult, lastGot, returned, closes, atOnce>>
    /\ UNCHANGED sessVars

\* lines 226-227: TimeoutExpired, the child is still alive: kill()
close_wait_timeout ==
    /\ cpc = "close_wait"
    /\ pstate = "running"
    /\ kills' = kills + 1
    /\ cpc' = "close_finally"
    /\ UNCHANGED <<proc, reader, queue, pstate, stdinOpen, pending, pipe,
                   nchunks, terminates, dpc, lastCall, ncalls, startResult,
                   lastGot, returned, closes, atOnce>>
    /\ UNCHANGED sessVars

\* mutant: the handle is kept
KeepHandle == proc' = proc

\* lines 228-229: finally: self.proc = None
ReleaseHandle == proc' = "None"

close_finally ==
    /\ cpc = "close_finally"
    /\ ReleaseHandle
    /\ cpc' = "idle"
    /\ closes' = closes + 1
    /\ UNCHANGED <<reader, queue, pstate, stdinOpen, pending, pipe, nchunks,
                   terminates, kills, dpc, lastCall, ncalls, startResult,
                   lastGot, returned, atOnce>>
    /\ UNCHANGED sessVars

(***************************************************************************)
(* The ffmpeg child: encodes what it was given, and exits (end of input,   *)
(* SIGTERM, SIGKILL or a failure of its own).  What it wrote before it     *)
(* exited stays readable in the pipe.                                      *)
(***************************************************************************)
ProcEncode ==
    /\ pstate = "running"
    /\ pending > 0
    /\ pending' = pending - 1
    /\ nchunks' = nchunks + 1
    /\ pipe' = Append(pipe, nchunks + 1)
    /\ UNCHANGED <<proc, reader, queue, pstate, stdinOpen, terminates, kills,
                   dpc, cpc, lastCall, ncalls, startResult, lastGot,
                   returned, closes, atOnce>>
    /\ UNCHANGED sessVars

ProcExit ==
    /\ pstate = "running"
    /\ pstate' = "exited"
    /\ UNCHANGED <<proc, reader, queue, stdinOpen, pending, pipe, nchunks,
                   terminates, kills, dpc, cpc, lastCall, ncalls,
                   startResult, lastGot, returned, closes, atOnce>>
    /\ UNCHANGED sessVars

(***************************************************************************)
(* AACEncoder._drain_stdout, one step per access to self.proc.  An access  *)
(* to self.proc after close() has set it to None raises AttributeError:    *)
(* inside the try (lines 157-178) it is caught and the thread goes on in   *)
(* the blocking loop (lines 181-188); there nothing catches it and the     *)
(* thread ends without reaching line 190.                                  *)
(***************************************************************************)
DrainKeeps == UNCHANGED <<proc, reader, pstate, stdinOpen, pending, nchunks,
                          terminates, kills, cpc, lastCall, ncalls,
                          startResult, lastGot, returned, closes, atOnce,
                          sessVars>>

\* line 153: if not self.proc or not self.proc.stdout: return
drain_entry ==
    /\ dpc = "entry"
    /\ dpc' = IF proc = "None" THEN "returned" ELSE "setup"
    /\ UNCHANGED <<queue, pipe>>
    /\ DrainKeeps

\* lines 157-163: import fcntl/select and set O_NONBLOCK; a platform
\* without them raises ImportError and the blocking loop is used
drain_setup ==
    /\ dpc = "setup"
    /\ \/ proc # "None" /\ dpc' = "nb_poll"
       \/ dpc' = "fb_poll"
    /\ UNCHANGED <<queue, pipe>>
    /\ DrainKeeps

\* lines 166-167 and 182-183: if self.proc.poll() is not None: break
DrainBreaks == pstate = "exited"

\* lines 165-167
drain_nb_poll ==
    /\ dpc = "nb_poll"
    /\ dpc' = IF proc = "None" THEN "fb_poll"
              ELSE IF DrainBreaks THEN "sentinel"
              ELSE "nb_select"
    /\ UNCHANGED <<queue, pipe>>
    /\ DrainKeeps

\* lines 168-170: select with a 50 ms timeout; stdout is readable when it
\* holds data or is at end of file
drain_nb_select ==
    /\ dpc = "nb_select"
    /\ dpc' = IF proc = "None" THEN "fb_poll"
              ELSE IF pipe # <<>> \/ pstate = "exited" THEN "nb_read"
              ELSE "nb_poll"
    /\ UNCHANGED <<queue, pipe>>
    /\ DrainKeeps

\* lines 171-178: read; a chunk goes on the queue, nothing read is a sleep
drain_nb_read ==
    /\ dpc = "nb_read"
    /\ IF proc = "None"
          THEN dpc' = "fb_poll" /\ UNCHANGED <<queue, pipe>>
          ELSE /\ dpc' = "nb_poll"
               /\ IF pipe # <<>>
                     THEN queue' = Append(queue, Head(pipe)) /\ pipe' = Tail(pipe)
                     ELSE UNCHANGED <<queue, pipe>>
    /\ DrainKeeps

\* lines 181-183
drain_fb_poll ==
    /\ dpc = "fb_poll"
    /\ dpc' = IF proc = "None" THEN "died"
              ELSE IF DrainBreaks THEN "sentinel"
              ELSE "fb_read"
    /\ UNCHANGED <<queue, pipe>>
    /\ DrainKeeps

\* lines 184-188: a blocking read returns with data or at end of file
drain_fb_read ==
    /\ dpc = "fb_read"
    /\ IF proc = "None"
          THEN dpc' = "died" /\ UNCHANGED <<queue, pipe>>
          ELSE /\ pipe # <<>> \/ pstate = "exited"
               /\ dpc' = "fb_poll"
               /\ IF pipe # <<>>
                     THEN queue' = Append(queue, Head(pipe)) /\ pipe' = Tail(pipe)
                     ELSE UNCHANGED <<queue, pipe>>
    /\ DrainKeeps

\* line 190: self.queue.put(None)
drain_sentinel ==
    /\ dpc = "sentinel"
    /\ queue' = Append(queue, NoneItem)
    /\ dpc' = "done"
    /\ UNCHANGED pipe
    /\ DrainKeeps

\* the thread running _drain_stdout has ended
DrainEnded == dpc \in {"returned", "done", "died"}

EncNext ==
    \/ start
    \/ encode
    \/ get_packets
    \/ close_call
    \/ close_stdin
    \/ close_poll
    \/ close_wait_returns
    \/ close_wait_timeout
    \/ close_finally
    \/ ProcEncode
    \/ ProcExit
    \/ drain_entry
    \/ drain_setup
    \/ drain_nb_poll
    \/ drain_nb_select
    \/ drain_nb_read
    \/ drain_fb_poll
    \/ drain_fb_read
    \/ drain_sentinel

EncSpec == EncInit /\ [][EncNext]_vars

EncTypeOK ==
    /\ proc \in {"None", "Popen"}
    /\ reader \in {"None", "Thread"}
    /\ pstate \in {"absent", "running", "exited"}
    /\ dpc \in {"idle", "entry", "setup", "nb_poll", "nb_select", "nb_read",
                "fb_poll", "fb_read", "sentinel", "returned", "done", "died"}
    /\ cpc \in {"idle", "close_stdin", "close_poll", "close_wait", "close_finally"}
    /\ pending \in 0..MaxPush
    /\ ncalls \in 0..MaxCalls

(***************************************************************************)
(* run_client and its tasks.  The event loop runs one coroutine at a time: *)
(* an action is the code a coroutine runs from one await to the next.      *)
(* Task.cancel() makes the task's pending await raise CancelledError the   *)
(* next time the task runs.                                                *)
(***************************************************************************)
\* run_client is called: line 259 creates stop_event, line 274 connects
SessInit ==
    /\ EncFresh
    /\ stop = FALSE
    /\ conn = "open"
    /\ opt \in [audio : BOOLEAN, video : BOOLEAN, vital : BOOLEAN,
                text : BOOLEAN, warmup : BOOLEAN]
    /\ rc = "init"
    /\ pc = [t \in Tasks |-> "none"]
    /\ outcome = [t \in Tasks |-> "none"]
    /\ cancelReq = [t \in Tasks |-> FALSE]
    /\ sent = [m \in Encoded |-> <<>>]
    /\ sending = {}
    /\ chunk_idx = 0
    /\ frame_idx = 0
    /\ arem = 0
    /\ vrem = 0
    /\ vcause = "none"
    /\ tdlog = [p \in Producers |-> <<>>]
    /\ running = {}
    /\ wokenBy = {}
    /\ shutdown = FALSE
    /\ msg = NoMessage
    /\ events = <<>>
    /\ before = "none"
    /\ cfg = DefaultCfg
    /\ target = BuildTarget(cfg)
    /\ pipeline = "none"
    /\ afault = "none"

\* the task is suspended at an await and may be resumed normally
At(t, p) == outcome[t] = "pending" /\ ~cancelReq[t] /\ pc[t] = p

\* lines 275-281: the order in which the tasks were created
Order == [recv |-> 1, audio |-> 2, video |-> 3, vital |-> 4]

\* the event loop runs new tasks first come, first served: t runs for the
\* first time once the tasks created before it have
Starts(t) ==
    /\ At(t, "start")
    /\ \A u \in Tasks : Order[u] < Order[t] => pc[u] # "start"

\* Task.cancel() was called on t and t has not run since: CancelledError is
\* raised at the await t is at when t runs next
Cancelled(t) == outcome[t] = "pending" /\ cancelReq[t]

SetTask(t, p, o) ==
    /\ pc' = [pc EXCEPT ![t] = p]
    /\ outcome' = [outcome EXCEPT ![t] = o]
    /\ cancelReq' = [cancelReq EXCEPT ![t] = FALSE]

\* _ws_send, lines 19-20: await ws.send(...) suspends the sender
BeginSend(s) == sending' = sending \cup {s}

\* the await ws.send(...) of s is over (returned, raised or cancelled)
EndSend(s) == sending' = sending \ {s}

\* the envelope handed to ws.send carries index i (lines 154, 218, 236)
Log(m, i) == sent' = [sent EXCEPT ![m] = Append(@, i)]

audioLocals == <<chunk_idx, arem>>

videoLocals == <<frame_idx, vrem, vcause>>

\* what no task's step touches
TaskKeeps == UNCHANGED <<conn, opt, rc, wokenBy, shutdown, encVars, ioVars>>

(***************************************************************************)
(* recv_loop, lines 40-93                                                  *)
(***************************************************************************)
RecvKeeps ==
    /\ UNCHANGED <<sent, sending, audioLocals, videoLocals, tdlog, running,
                   audioPipe>>
    /\ TaskKeeps

\* line 42: the task starts and waits for the first message
recv_start ==
    /\ Starts("recv")
    /\ SetTask("recv", "recv", "pending")
    /\ UNCHANGED stop
    /\ RecvKeeps

\* lines 42-87: an inbound message is classified and printed, and the loop
\* waits for the next one
recv_message ==
    /\ At("recv", "recv")
    /\ conn = "open"
    /\ UNCHANGED <<stop, pc, outcome, cancelReq>>
    /\ RecvKeeps

\* the variant of RecvFinally without the finally block
RecvNoFinally == UNCHANGED stop

\* lines 92-93: finally: stop_event.set()
RecvFinally == stop' = TRUE

\* lines 88-93: the connection is closed: the iteration ends, or
\* ConnectionClosed is caught; then finally
recv_closed ==
    /\ At("recv", "recv")
    /\ conn = "closed"
    /\ RecvFinally
    /\ SetTask("recv", "end", "returned")
    /\ RecvKeeps

\* CancelledError at line 42; a task cancelled before it first ran never
\* enters its try
recv_cancelled ==
    /\ Cancelled("recv")
    /\ IF pc["recv"] = "start" THEN UNCHANGED stop ELSE RecvFinally
    /\ SetTask("recv", "end", "cancelled")
    /\ RecvKeeps

(***************************************************************************)
(* recv_loop's body, lines 43-87: what is printed for one message.  An     *)
(* event is one print call, named after what it shows.                     *)
(***************************************************************************)
\* the variant of RawLine that shows nothing
NoLine == <<>>

\* lines 46 and 50: print("[recv]", message)
RawLine == <<"raw">>

\* lines 65-85: a chunk
OnChunk(m) ==
    (IF m.payload = "object"
        THEN (IF m.delta = "text" THEN <<"delta">> ELSE <<>>)
             \o (IF m.final /\ m.emotion THEN <<"final_result">> ELSE <<>>)
        ELSE IF m.payload = "text" THEN <<"chunk_payload">> ELSE <<>>)
    \o (IF m.final /\ m.usage THEN <<"usage">> ELSE <<>>)

\* the variant of OnObject that looks at message_type before code
OnObjectTypeFirst(m) ==
    IF m.mtype \in {"ack", "pong"} THEN <<>>
    ELSE IF m.code = "set" THEN <<"error">>
    ELSE IF m.mtype = "chunk" THEN OnChunk(m)
    ELSE <<"other">>

\* lines 53-87: a dict: code first, then message_type
OnObject(m) ==
    IF m.code = "set" THEN <<"error">>
    ELSE IF m.mtype \in {"ack", "pong"} THEN <<>>
    ELSE IF m.mtype = "chunk" THEN OnChunk(m)
    ELSE <<"other">>

\* lines 43-87
Dispatch(m) == IF m.form = "object" THEN OnObject(m) ELSE RawLine

\* which continue or branch of lines 43-87 the message took
KindOf(m) ==
    IF m.form # "object" THEN "malformed"
    ELSE IF m.code = "set" THEN "error"
    ELSE IF m.mtype \in {"ack", "pong"} THEN "discarded"
    ELSE "shown"

\* lines 42-87: one message is received, classified and printed, and the
\* loop waits for the next one
recv_dispatch ==
    /\ At("recv", "recv")
    /\ conn = "open"
    /\ \E m \in Inbound :
          /\ msg' = m
          /\ events' = Dispatch(m)
    /\ before' = KindOf(msg)
    /\ UNCHANGED <<stop, pc, outcome, cancelReq, cfg, target>>
    /\ UNCHANGED <<sent, sending, audioLocals, videoLocals, tdlog, running>>
    /\ UNCHANGED <<conn, opt, rc, wokenBy, shutdown, encVars, audioPipe>>

(***************************************************************************)
(* run_client with every producer disabled, once recv_loop waits for its   *)
(* first message at line 42: the dispatcher alone, message by message.     *)
(***************************************************************************)
DispInit ==
    /\ EncFresh
    /\ stop = FALSE
    /\ conn = "open"
    /\ opt = [audio |-> FALSE, video |-> FALSE, vital |-> FALSE,
              text |-> FALSE, warmup |-> FALSE]
    /\ rc = "wait"
    /\ pc = [t \in Tasks |-> IF t = "recv" THEN "recv" ELSE "none"]
    /\ outcome = [t \in Tasks |-> IF t = "recv" THEN "pending" ELSE "none"]
    /\ cancelReq = [t \in Tasks |-> FALSE]
    /\ sent = [m \in Encoded |-> <<>>]
    /\ sending = {}
    /\ chunk_idx = 0
    /\ frame_idx = 0
    /\ arem = 0
    /\ vrem = 0
    /\ vcause = "none"
    /\ tdlog = [p \in Producers |-> <<>>]
    /\ running = {}
    /\ wokenBy = {}
    /\ shutdown = FALSE
    /\ msg = NoMessage
    /\ events = <<>>
    /\ before = "none"
    /\ cfg = DefaultCfg
    /\ target = BuildTarget(cfg)
    /\ pipeline = "none"
    /\ afault = "none"

(***************************************************************************)
(* vital_sender, lines 96-108                                              *)
(***************************************************************************)
VitalKeeps ==
    /\ UNCHANGED <<stop, sent, audioLocals, videoLocals, tdlog, audioPipe>>
    /\ TaskKeeps

\* lines 97-107: the loop test, then the next envelope; ws.send on a closed
\* connection raises ConnectionClosed
VitalLoop ==
    IF stop
       THEN SetTask("vital", "end", "returned") /\ UNCHANGED sending
       ELSE IF conn = "open"
               THEN BeginSend("vital") /\ SetTask("vital", "send", "pending")
               ELSE SetTask("vital", "end", "raised") /\ UNCHANGED sending

vital_start ==
    /\ Starts("vital")
    /\ VitalLoop
    /\ running' = running \cup {"vital"}
    /\ VitalKeeps

\* line 107 returns, line 108 sleeps
vital_send_done ==
    /\ At("vital", "send")
    /\ conn = "open"
    /\ EndSend("vital")
    /\ SetTask("vital", "sleep", "pending")
    /\ UNCHANGED running
    /\ VitalKeeps

\* line 107 raises ConnectionClosed
vital_send_fails ==
    /\ At("vital", "send")
    /\ conn = "closed"
    /\ EndSend("vital")
    /\ SetTask("vital", "end", "raised")
    /\ UNCHANGED running
    /\ VitalKeeps

\* line 108 returns
vital_wake ==
    /\ At("vital", "sleep")
    /\ VitalLoop
    /\ UNCHANGED running
    /\ VitalKeeps

\* CancelledError at line 107 or 108: nothing catches it, there is no finally
vital_cancelled ==
    /\ Cancelled("vital")
    /\ EndSend("vital")
    /\ SetTask("vital", "end", "cancelled")
    /\ UNCHANGED running
    /\ VitalKeeps

(***************************************************************************)
(* audio_sender, lines 111-174.  The pipeline's own behaviour is EncSpec;  *)
(* here start() succeeds or not, and get_packets() returns the packets the *)
(* drain thread has queued so far, any number of them.                     *)
(***************************************************************************)
AudioKeeps ==
    /\ UNCHANGED videoLocals
    /\ TaskKeeps

\* lines 165-174: finally: stop_event.set(); encoder.close();
\* stream.stop_stream(); stream.close(); pa.terminate()
AudioTeardownSteps == <<"set_stop", "close_pipeline", "release_device">>

\* the finally block, after which the coroutine ends as o
AudioFinally(o) ==
    /\ stop' = TRUE
    /\ tdlog' = [tdlog EXCEPT !["audio"] = AudioTeardownSteps]
    /\ SetTask("audio", "end", o)
    /\ EndSend("audio")
    /\ chunk_idx' = 0
    /\ arem' = 0
    /\ pipeline' = "none"
    /\ UNCHANGED sent

\* lines 142-144: the loop test, then await asyncio.to_thread(stream.read)
AudioLoop ==
    IF stop
       THEN AudioFinally("returned")
       ELSE /\ SetTask("audio", "read", "pending")
            /\ UNCHANGED <<stop, tdlog, sent, sending, audioLocals, pipeline>>

\* lines 112-140: a missing prerequisite makes the coroutine return
audio_start ==
    /\ Starts("audio")
    /\ \E have \in {"no_pyaudio", "no_microphone", "no_ffmpeg", "ok"} :
          IF have = "ok"
             THEN /\ running' = running \cup {"audio"}
                  /\ IF stop
                        THEN AudioFinally("returned")
                        ELSE /\ SetTask("audio", "read", "pending")
                             /\ pipeline' = "up"
                             /\ UNCHANGED <<stop, tdlog, sent, sending,
                                            audioLocals>>
             ELSE /\ SetTask("audio", "end", "skipped")
                  /\ UNCHANGED <<stop, tdlog, sent, sending, running,
                                 audioLocals, pipeline>>
    /\ UNCHANGED afault
    /\ AudioKeeps

\* lines 149-164: encode, get_packets; the first packet is handed to
\* ws.send, or with no packet the loop sleeps.  On a broken pipe
\* stdin.write raises, encode swallows the exception (encoders.py 195-199)
\* and get_packets finds nothing.
audio_read_done ==
    /\ At("audio", "read")
    /\ chunk_idx < MaxIndex
    /\ IF pipeline = "broken"
          THEN /\ SetTask("audio", "sleep", "pending")
               /\ afault' = "pipe"
               /\ UNCHANGED <<stop, tdlog, sent, sending, audioLocals,
                              pipeline>>
          ELSE \E n \in 0..MaxPkts :
                  IF n = 0
                     THEN /\ SetTask("audio", "sleep", "pending")
                          /\ UNCHANGED <<stop, tdlog, sent, sending,
                                         audioLocals, audioPipe>>
                     ELSE IF conn = "open"
                             THEN /\ Log("audio", chunk_idx)
                                  /\ BeginSend("audio")
                                  /\ arem' = n - 1
                                  /\ SetTask("audio", "send", "pending")
                                  /\ UNCHANGED <<stop, tdlog, chunk_idx,
                                                 audioPipe>>
                             ELSE /\ AudioFinally("raised")
                                  /\ afault' = "send"
    /\ UNCHANGED running
    /\ AudioKeeps

\* lines 145-147: stream.read raises: break, then finally
audio_read_fails ==
    /\ At("audio", "read")
    /\ AudioFinally("returned")
    /\ afault' = "read"
    /\ UNCHANGED running
    /\ AudioKeeps

\* line 162: chunk_idx += 1 after every envelope
AudioNextIndex == chunk_idx + 1

\* lines 161-164: ws.send returns, chunk_idx += 1, then the next packet of
\* the for loop or the sleep
audio_send_done ==
    /\ At("audio", "send")
    /\ conn = "open"
    /\ chunk_idx' = AudioNextIndex
    /\ IF arem > 0
          THEN /\ Log("audio", chunk_idx')
               /\ arem' = arem - 1
               /\ UNCHANGED <<sending, pc, outcome, cancelReq>>
          ELSE /\ EndSend("audio")
               /\ SetTask("audio", "sleep", "pending")
               /\ UNCHANGED <<sent, arem>>
    /\ UNCHANGED <<stop, tdlog, running, audioPipe>>
    /\ AudioKeeps

\* line 161 raises ConnectionClosed: finally
audio_send_fails ==
    /\ At("audio", "send")
    /\ conn = "closed"
    /\ AudioFinally("raised")
    /\ afault' = "send"
    /\ UNCHANGED running
    /\ AudioKeeps

\* line 164 returns
audio_wake ==
    /\ At("audio", "sleep")
    /\ AudioLoop
    /\ UNCHANGED afault
    /\ UNCHANGED running
    /\ AudioKeeps

\* CancelledError at line 144, 161 or 164: finally
audio_cancelled ==
    /\ Cancelled("audio")
    /\ IF pc["audio"] = "start"
          THEN /\ SetTask("audio", "end", "cancelled")
               /\ UNCHANGED <<stop, tdlog, sent, sending, audioLocals,
                              pipeline>>
          ELSE AudioFinally("cancelled")
    /\ UNCHANGED afault
    /\ UNCHANGED running
    /\ AudioKeeps

\* the ffmpeg child of audio_sender's encoder exits on its own (it crashed
\* or was killed) and the loop has consumed what it had produced
ffmpeg_exits ==
    /\ pipeline = "up"
    /\ pipeline' = "broken"
    /\ UNCHANGED <<stop, pc, outcome, cancelReq, sent, sending, tdlog,
                   running, audioLocals, afault>>
    /\ AudioKeeps

(***************************************************************************)
(* video_sender, lines 177-245.  H264Encoder.encode and flush return the   *)
(* packets the codec has ready, any number of them.                        *)
(***************************************************************************)
VideoKeeps ==
    /\ UNCHANGED <<audioLocals, audioPipe>>
    /\ TaskKeeps

\* how a coroutine that left its try block for cause c ends
OutcomeOf(c) ==
    IF c = "normal" THEN "returned"
    ELSE IF c = "exc" THEN "raised"
    ELSE "cancelled"

\* the variant of VideoTeardownSteps without encoder.flush()
VideoTeardownNoFlush == <<"set_stop", "release_device">>

\* lines 229-232: finally: stop_event.set(); cap.release(); encoder.flush()
VideoTeardownSteps == <<"set_stop", "release_device", "flush">>

\* the coroutine ends as o; its locals are gone
VideoEnds(o) ==
    /\ SetTask("video", "end", o)
    /\ EndSend("video")
    /\ frame_idx' = 0
    /\ vrem' = 0
    /\ vcause' = "none"

\* lines 229-245: the finally block up to its first await: with k packets
\* flushed, the first is handed to ws.send
VideoFinally(c, k) ==
    /\ stop' = TRUE
    /\ IF k = 0
          THEN /\ tdlog' = [tdlog EXCEPT !["video"] = VideoTeardownSteps]
               /\ VideoEnds(OutcomeOf(c))
               /\ UNCHANGED sent
          ELSE IF conn = "open"
                  THEN /\ tdlog' = [tdlog EXCEPT !["video"] =
                                       Append(VideoTeardownSteps, "send_final")]
                       /\ Log("video", frame_idx)
                       /\ BeginSend("video")
                       /\ vrem' = k - 1
                       /\ vcause' = c
                       /\ SetTask("video", "fsend", "pending")
                       /\ UNCHANGED frame_idx
                  ELSE /\ tdlog' = [tdlog EXCEPT !["video"] = VideoTeardownSteps]
                       /\ VideoEnds("raised")
                       /\ UNCHANGED sent

\* lines 207-228: the loop test, cap.read(), encoder.encode(); the first
\* packet is handed to ws.send, or with no packet frame_idx += 1 and sleep
VideoLoop ==
    IF stop
       THEN \E k \in 0..MaxFlush : VideoFinally("normal", k)
       ELSE \/ \E k \in 0..MaxFlush : VideoFinally("normal", k)
            \/ /\ frame_idx < MaxIndex
               /\ \E n \in 0..MaxPkts :
                     IF n = 0
                        THEN /\ frame_idx' = frame_idx + 1
                             /\ SetTask("video", "sleep", "pending")
                             /\ UNCHANGED <<stop, tdlog, sent, sending, vrem,
                                            vcause>>
                        ELSE IF conn = "open"
                                THEN /\ Log("video", frame_idx)
                                     /\ BeginSend("video")
                                     /\ vrem' = n - 1
                                     /\ SetTask("video", "send", "pending")
                                     /\ UNCHANGED <<stop, tdlog, frame_idx,
                                                    vcause>>
                                ELSE \E k \in 0..MaxFlush :
                                        VideoFinally("exc", k)

\* lines 178-205: a missing prerequisite makes the coroutine return
video_start ==
    /\ Starts("video")
    /\ \E have \in {"no_deps", "no_camera", "no_encoder", "ok"} :
          IF have = "ok"
             THEN /\ running' = running \cup {"video"}
                  /\ VideoLoop
             ELSE /\ SetTask("video", "end", "skipped")
                  /\ UNCHANGED <<stop, tdlog, sent, sending, running,
                                 videoLocals>>
    /\ VideoKeeps

\* lines 214-227: every packet of one frame carries the frame's index
VideoNextInFrame == frame_idx

\* lines 225-228: ws.send returns; the next packet of the same frame, or
\* after the last one frame_idx += 1 and sleep
video_send_done ==
    /\ At("video", "send")
    /\ conn = "open"
    /\ IF vrem > 0
          THEN /\ Log("video", VideoNextInFrame)
               /\ vrem' = vrem - 1
               /\ UNCHANGED <<sending, pc, outcome, cancelReq, frame_idx>>
          ELSE /\ frame_idx' = frame_idx + 1
               /\ EndSend("video")
               /\ SetTask("video", "sleep", "pending")
               /\ UNCHANGED <<sent, vrem>>
    /\ UNCHANGED <<stop, vcause, tdlog, running>>
    /\ VideoKeeps

\* line 225 raises ConnectionClosed: finally
video_send_fails ==
    /\ At("video", "send")
    /\ conn = "closed"
    /\ \E k \in 0..MaxFlush : VideoFinally("exc", k)
    /\ UNCHANGED running
    /\ VideoKeeps

\* line 228 returns
video_wake ==
    /\ At("video", "sleep")
    /\ VideoLoop
    /\ UNCHANGED running
    /\ VideoKeeps

\* lines 243-245: ws.send of a flushed packet returns, frame_idx += 1, then
\* the next flushed packet or the end of the coroutine
video_fsend_done ==
    /\ At("video", "fsend")
    /\ conn = "open"
    /\ IF vrem > 0
          THEN /\ frame_idx' = frame_idx + 1
               /\ Log("video", frame_idx')
               /\ vrem' = vrem - 1
               /\ tdlog' = [tdlog EXCEPT !["video"] = Append(@, "send_final")]
               /\ UNCHANGED <<sending, pc, outcome, cancelReq, vcause>>
          ELSE /\ VideoEnds(OutcomeOf(vcause))
               /\ UNCHANGED <<sent, tdlog>>
    /\ UNCHANGED <<stop, running>>
    /\ VideoKeeps

\* line 243 raises ConnectionClosed inside the finally block
video_fsend_fails ==
    /\ At("video", "fsend")
    /\ conn = "closed"
    /\ VideoEnds("raised")
    /\ UNCHANGED <<stop, sent, tdlog, running>>
    /\ VideoKeeps

\* CancelledError at line 225 or 228: finally; at line 243: out of the
\* finally block
video_cancelled ==
    /\ Cancelled("video")
    /\ IF pc["video"] \in {"start", "fsend"}
          THEN /\ VideoEnds("cancelled")
               /\ UNCHANGED <<stop, sent, tdlog>>
          ELSE \E k \in 0..MaxFlush : VideoFinally("cancel", k)
    /\ UNCHANGED running
    /\ VideoKeeps

(***************************************************************************)
(* run_client, lines 248-296, and asyncio.run in main, lines 330-339       *)
(***************************************************************************)
Created(t) == t = "recv" \/ opt[t]

Done == {t \in Tasks : outcome[t] \notin {"none", "pending"}}

RcKeeps == UNCHANGED <<opt, sent, audioLocals, videoLocals, tdlog, running,
                       encVars, ioVars, audioPipe>>

\* the variant of AfterWarmup that does not look at send_initial_text
AfterWarmupAlways ==
    IF conn = "open"
       THEN BeginSend("text") /\ rc' = "text"
       ELSE rc' = "raised" /\ UNCHANGED sending

\* lines 287-291: the initial text envelope, then asyncio.wait
AfterWarmup ==
    IF opt.text
       THEN IF conn = "open"
               THEN BeginSend("text") /\ rc' = "text"
               ELSE rc' = "raised" /\ UNCHANGED sending
       ELSE rc' = "wait" /\ UNCHANGED sending

\* lines 275-285: the tasks are created, then the first await
rc_create ==
    /\ rc = "init"
    /\ pc' = [t \in Tasks |-> IF Created(t) THEN "start" ELSE "none"]
    /\ outcome' = [t \in Tasks |-> IF Created(t) THEN "pending" ELSE "none"]
    /\ IF opt.warmup
          THEN rc' = "warmup" /\ UNCHANGED sending
          ELSE AfterWarmup
    /\ UNCHANGED <<stop, conn, cancelReq, wokenBy, shutdown>>
    /\ RcKeeps

\* line 285 returns
rc_warmup_done ==
    /\ rc = "warmup"
    /\ AfterWarmup
    /\ UNCHANGED <<stop, conn, pc, outcome, cancelReq, wokenBy, shutdown>>
    /\ RcKeeps

\* line 288 returns
rc_text_done ==
    /\ rc = "text"
    /\ conn = "open"
    /\ EndSend("text")
    /\ rc' = "wait"
    /\ UNCHANGED <<stop, conn, pc, outcome, cancelReq, wokenBy, shutdown>>
    /\ RcKeeps

\* line 288 raises ConnectionClosed, before the try of line 290
rc_text_fails ==
    /\ rc = "text"
    /\ conn = "closed"
    /\ EndSend("text")
    /\ rc' = "raised"
    /\ UNCHANGED <<stop, conn, pc, outcome, cancelReq, wokenBy, shutdown>>
    /\ RcKeeps

\* lines 294-295: for t in tasks: t.cancel(); cancel() of a finished task
\* does nothing
CancelAll == cancelReq' = [t \in Tasks |-> outcome[t] = "pending"]

\* lines 291-296: asyncio.wait returns with the first task done; finally:
\* stop_event.set(), cancel every task, sleep 0.1 s
rc_wait_returns ==
    /\ rc = "wait"
    /\ Done # {}
    /\ wokenBy' = Done
    /\ stop' = TRUE
    /\ CancelAll
    /\ rc' = "grace"
    /\ UNCHANGED <<conn, pc, outcome, sending, shutdown>>
    /\ RcKeeps

\* line 296 returns: the 0.1 s timer fires after every cancelled task has
\* been resumed once; run_client returns and line 274 closes the connection
rc_grace_done ==
    /\ rc = "grace"
    /\ \A t \in Tasks : ~Cancelled(t)
    /\ rc' = "done"
    /\ conn' = "closed"
    /\ UNCHANGED <<stop, pc, outcome, cancelReq, sending, wokenBy, shutdown>>
    /\ RcKeeps

\* main, lines 330-339: asyncio.run cancels the tasks still pending when
\* run_client has returned or raised.  The first step of every task was
\* queued at create_task, ahead of the callback that ends run_until_complete,
\* so every task has run once by then.
loop_shutdown ==
    /\ rc \in {"done", "raised"}
    /\ ~shutdown
    /\ \A t \in Tasks : pc[t] # "start"
    /\ shutdown' = TRUE
    /\ cancelReq' = [t \in Tasks |-> cancelReq[t] \/ outcome[t] = "pending"]
    /\ UNCHANGED <<stop, conn, rc, pc, outcome, sending, wokenBy>>
    /\ RcKeeps

\* the gateway closes the connection, or the network drops it
peer_closes ==
    /\ conn = "open"
    /\ conn' = "closed"
    /\ UNCHANGED <<stop, rc, pc, outcome, cancelReq, sending, wokenBy,
                   shutdown>>
    /\ RcKeeps

Next ==
    \/ rc_create
    \/ rc_warmup_done
    \/ rc_text_done
    \/ rc_text_fails
    \/ rc_wait_returns
    \/ rc_grace_done
    \/ loop_shutdown
    \/ peer_closes
    \/ recv_start
    \/ recv_message
    \/ recv_closed
    \/ recv_cancelled
    \/ vital_start
    \/ vital_send_done
    \/ vital_send_fails
    \/ vital_wake
    \/ vital_cancelled
    \/ audio_start
    \/ audio_read_done
    \/ audio_read_fails
    \/ audio_send_done
    \/ audio_send_fails
    \/ audio_wake
    \/ audio_cancelled
    \/ ffmpeg_exits
    \/ video_start
    \/ video_send_done
    \/ video_send_fails
    \/ video_wake
    \/ video_fsend_done
    \/ video_fsend_fails
    \/ video_cancelled

Spec == SessInit /\ [][Next]_vars

(***************************************************************************)
(* run_client with audio and video disabled (enable_audio = False,         *)
(* enable_video = False): recv_loop, vital_sender and run_client.          *)
(***************************************************************************)
CoreInit == SessInit /\ ~opt.audio /\ ~opt.video

CoreNext ==
    \/ rc_create
    \/ rc_warmup_done
    \/ rc_text_done
    \/ rc_text_fails
    \/ rc_wait_returns
    \/ rc_grace_done
    \/ loop_shutdown
    \/ peer_closes
    \/ recv_start
    \/ recv_message
    \/ recv_closed
    \/ recv_cancelled
    \/ vital_start
    \/ vital_send_done
    \/ vital_send_fails
    \/ vital_wake
    \/ vital_cancelled

CoreSpec == CoreInit /\ [][CoreNext]_vars

\* the event loop resumes a task that can run: recv_loop is started, is
\* told that the connection closed, and is handed its CancelledError
CoreFair ==
    /\ CoreSpec
    /\ WF_vars(recv_start)
    /\ WF_vars(recv_closed)
    /\ WF_vars(recv_cancelled)

DispNext ==
    \/ recv_dispatch
    \/ peer_closes
    \/ recv_closed

DispSpec == DispInit /\ [][DispNext]_vars

(***************************************************************************)
(* The connection target, run_client lines 259-261, for every ClientConfig *)
(***************************************************************************)
TargetInit == EncFresh /\ SessQuiet /\ cfg \in Cfgs

\* lines 260-261: gateway_url and extra_headers are computed
build_target ==
    /\ ~target.built
    /\ target' = BuildTarget(cfg)
    /\ UNCHANGED <<encVars, stop, conn, opt, rc, pc, outcome, cancelReq, sent,
                   sending, chunk_idx, frame_idx, arem, vrem, vcause, tdlog,
                   running, wokenBy, shutdown, msg, events, before, cfg,
                   audioPipe>>

\* lines 263-274: the headers are passed to websockets.connect when there
\* are any, and the connection opens
connect ==
    /\ target.built
    /\ rc = "none"
    /\ rc' = "init"
    /\ conn' = "open"
    /\ UNCHANGED <<encVars, stop, opt, pc, outcome, cancelReq, sent,
                   sending, chunk_idx, frame_idx, arem, vrem, vcause, tdlog,
                   running, wokenBy, shutdown, msg, events, before, cfg,
                   target, audioPipe>>

TargetNext ==
    \/ build_target
    \/ connect

TargetSpec == TargetInit /\ [][TargetNext]_vars

SessTypeOK ==
    /\ stop \in BOOLEAN
    /\ conn \in {"open", "closed"}
    /\ rc \in {"init", "warmup", "text", "wait", "grace", "done", "raised"}
    /\ \A t \in Tasks :
          /\ pc[t] \in {"none", "start", "recv", "read", "send", "sleep",
                        "fsend", "end"}
          /\ outcome[t] \in {"none", "pending", "skipped", "returned",
                             "raised", "cancelled"}
          /\ (pc[t] = "end") = (outcome[t] \notin {"none", "pending"})
    /\ sending \subseteq Senders
    /\ sending = {t \in Producers : pc[t] \in {"send", "fsend"}}
                    \cup (IF rc = "text" THEN {"text"} ELSE {})
    /\ arem \in 0..MaxPkts
    /\ vrem \in 0..(MaxPkts + MaxFlush)

(***************************************************************************)
(* Claims about AACEncoder, checked under EncSpec.                         *)
(***************************************************************************)
\* a step in which the caller calls method m
CallOf(m) == ncalls' = ncalls + 1 /\ lastCall' = m

\* C4: every chunk the child wrote to stdout before it exited is eventually
\* put on the queue and returned by get_packets.  Once close() has returned
\* and the drain thread has ended nothing is put on the queue any more, so
\* by then every chunk written must be on the queue or have been returned.
C4_NoChunkLost ==
    (closes > 0 /\ cpc = "idle" /\ DrainEnded)
        => \A c \in 1..nchunks : c \in returned \/ c \in Range(queue)

\* C5: after close() has returned on a started pipeline, the drain thread
\* has exited.
C5_DrainEndedAfterClose ==
    (closes > 0 /\ cpc = "idle") => DrainEnded

\* C9: close() before start(), after a failed start(), or after a previous
\* close() returns at once: it issues no terminate and no kill and leaves
\* the pipeline as it was.
C9_CloseIdempotent ==
    [][(CallOf("close") /\ (startResult # "True" \/ closes > 0))
          => (cpc' = "idle" /\ UNCHANGED pipelineState)]_vars

C9_Witness ==
    /\ "after_close" \in atOnce
    /\ lastCall = "close"
    /\ cpc = "idle"
    /\ terminates + kills > 0

\* C10: a start() that cannot launch the binary returns False and starts no
\* drain thread; afterwards encode() changes nothing and get_packets()
\* returns the empty list.
C10_FailedStartNoOps ==
    [][/\ startResult' = "False" =>
            (proc' = "None" /\ reader' = "None" /\ dpc' = "idle")
       /\ (startResult = "False" /\ CallOf("encode")) =>
            UNCHANGED pipelineState
       /\ (startResult = "False" /\ CallOf("get_packets")) =>
            (lastGot' = <<>> /\ UNCHANGED pipelineState)]_vars

C10_Witness ==
    /\ startResult = "False"
    /\ lastCall = "get_packets"
    /\ ncalls >= 3

(***************************************************************************)
(* Claims about run_client and its tasks, checked under Spec.              *)
(***************************************************************************)
\* a step in which some sender hands an envelope to ws.send
SendBegins == sent' # sent \/ ~(sending' \subseteq sending)

\* C1: once the stop signal is set, no task hands a further envelope to
\* ws.send.
C1_NoSendAfterStop == [][stop => ~SendBegins]_vars

\* C2: when run_client returns after the grace wait, the stop signal is set
\* and every task it started has terminated.
C2_AllTerminatedAtReturn ==
    rc = "done" => (stop /\ \A t \in Tasks : outcome[t] # "pending")

\* C3: a producer that ends because its prerequisite is unavailable does
\* not end the session: run_client does not set the stop signal and cancel
\* the other tasks when the only tasks that completed are such producers.
C3_SkipLeavesSessionRunning ==
    ~(/\ rc = "grace"
      /\ stop
      /\ \E t \in Tasks : cancelReq[t]
      /\ wokenBy # {}
      /\ \A t \in wokenBy : outcome[t] = "skipped")

StrictlyIncreasing(s) == \A i \in 1..(Len(s) - 1) : s[i] < s[i + 1]

\* C6: per modality, the indices of the envelopes handed to ws.send start
\* at 0 and are strictly increasing.
C6_IndicesStrictlyIncreasing ==
    \A m \in Encoded :
       /\ Len(sent[m]) > 0 => sent[m][1] = 0
       /\ StrictlyIncreasing(sent[m])

\* the place of a teardown step in the order the specification gives
Rank(step) ==
    CASE step = "set_stop" -> 1
      [] step = "flush" -> 2
      [] step = "send_final" -> 3
      [] step = "close_pipeline" -> 4
      [] step = "release_device" -> 5

\* C7: a producer that entered RUNNING and has exited has set the stop
\* signal first, then flushed and sent the final packets, then closed the
\* pipeline, and released the capture device last.
C7_TeardownInOrder ==
    \A p \in Producers :
       (p \in running /\ outcome[p] \notin {"none", "pending"}) =>
          /\ tdlog[p] # <<>>
          /\ tdlog[p][1] = "set_stop"
          /\ \A i \in 1..(Len(tdlog[p]) - 1) :
                Rank(tdlog[p][i]) <= Rank(tdlog[p][i + 1])

\* C8: no two sends on the connection are in progress at once.
C8_SendsSerialized == Cardinality(sending) <= 1

(***************************************************************************)
(* Claims about recv_loop's classification, checked under DispSpec.        *)
(***************************************************************************)
Count(s, e) == Cardinality({i \in DOMAIN s : s[i] = e})

\* recv_loop has handled msg: a chunk without error code
ChunkHandled == msg.form = "object" /\ msg.code # "set" /\ msg.mtype = "chunk"

\* payload.delta is present with text
DeltaPresent(m) == m.payload = "object" /\ m.delta = "text"

\* payload.emotion_result is present
ResultPresent(m) == m.payload = "object" /\ m.emotion

\* C11: for a chunk without error code, exactly one delta event iff
\* payload.delta is present with text, exactly one final-result event iff
\* is_final and payload.emotion_result is present, and no other event but a
\* usage event when is_final and a usage field is present.
C11_ChunkEvents ==
    ChunkHandled =>
       /\ Count(events, "delta") = (IF DeltaPresent(msg) THEN 1 ELSE 0)
       /\ Count(events, "final_result") =
             (IF msg.final /\ ResultPresent(msg) THEN 1 ELSE 0)
       /\ Count(events, "usage") = (IF msg.final /\ msg.usage THEN 1 ELSE 0)
       /\ Range(events) \subseteq {"delta", "final_result", "usage"}

\* a step in which recv_loop handles a message
Handles == <<msg, events, before>>' # <<msg, events, before>>

\* C12: an envelope with an error code yields exactly one error event
\* whatever its message_type; without one, ack and pong yield no event; and
\* handling an error envelope neither ends recv_loop nor sets the stop
\* signal.
C12_ErrorFirst ==
    [][Handles =>
         /\ (msg'.form = "object" /\ msg'.code = "set")
               => /\ events' = <<"error">>
                  /\ stop' = stop
                  /\ pc'["recv"] = "recv"
                  /\ outcome'["recv"] = "pending"
         /\ (msg'.form = "object" /\ msg'.code # "set"
               /\ msg'.mtype \in {"ack", "pong"}) => events' = <<>>]_vars

\* an error envelope was handled, and after it a chunk that yields its
\* delta event
C12_Witness ==
    /\ before = "error"
    /\ ChunkHandled
    /\ events = <<"delta">>
    /\ ~stop

\* C16: a malformed inbound message is displayed raw, nothing is raised,
\* the stop signal is not set and recv_loop goes on to the next message.
C16_MalformedRecovered ==
    [][(Handles /\ msg'.form # "object")
          => /\ events' = <<"raw">>
             /\ stop' = stop
             /\ pc'["recv"] = "recv"
             /\ outcome'["recv"] = "pending"]_vars

\* a message was handled after a malformed one
C16_Witness ==
    /\ before = "malformed"
    /\ msg.form = "object"
    /\ events # <<>>
    /\ ~stop
    /\ outcome["recv"] = "pending"

(***************************************************************************)
(* Claims about recv_loop's termination, checked under CoreFair.           *)
(***************************************************************************)
RecvEnded == outcome["recv"] \notin {"none", "pending"}

\* C13: recv_loop never terminates leaving the stop signal unset, and once
\* the connection is closed a running recv_loop terminates with the stop
\* signal set.
C13_RecvEndsWithStop ==
    /\ [](RecvEnded => stop)
    /\ (conn = "closed" /\ outcome["recv"] = "pending")
          ~> (RecvEnded /\ stop)

\* recv_loop ended because the connection closed, before run_client set
\* the stop signal itself
C13_Witness ==
    /\ outcome["recv"] = "returned"
    /\ conn = "closed"
    /\ stop
    /\ rc \in {"warmup", "text", "wait"}

(***************************************************************************)
(* Claims about the connection target, checked under TargetSpec.           *)
(***************************************************************************)
\* the value of the token query parameter of a URL, as a server parses it
TokenParam(url) ==
    LET d == DictOf(ParseQsl(url.query))
    IN  IF HasKey(d, "token")
           THEN Some(d[CHOOSE i \in DOMAIN d : d[i][1] = "token"][2])
           ELSE NoneText

\* a token T is configured and the URL has no token query parameter
TokenToPlace ==
    /\ cfg.api_token.some
    /\ cfg.api_token.text # <<>>
    /\ ~HasKey(cfg.ws_url.query, "token")

\* C14: for a token T and a URL without token parameter, with header mode
\* off the URL's token parameter equals T and there are no headers; with
\* header mode on the URL is unchanged and the headers are exactly
\* Authorization: Bearer T; the token is never in both places.
C14_TokenInOnePlace ==
    (target.built /\ TokenToPlace) =>
       /\ ~cfg.token_in_header =>
             /\ TokenParam(target.url) = cfg.api_token
             /\ target.headers = NoHeaders
       /\ cfg.token_in_header =>
             /\ target.url = cfg.ws_url
             /\ target.headers =
                   [some |-> TRUE,
                    Authorization |-> <<"Bearer ">> \o cfg.api_token.text]
       /\ ~(TokenParam(target.url).some /\ target.headers.some)

\* a token that needs escaping went into a URL that had another parameter
C14_Witness ==
    /\ target.built
    /\ TokenToPlace
    /\ ~cfg.token_in_header
    /\ cfg.api_token.text = <<"+">>
    /\ cfg.ws_url.query # <<>>
    /\ Len(target.url.query) = 2

(***************************************************************************)
(* Claims about I/O failures in a producer loop, checked under Spec.       *)
(***************************************************************************)
\* C15: an I/O failure met by a running producer loop (capture read error,
\* broken pipe to the transcoder, failed send) ends the loop: the loop has
\* left its iteration body, run its teardown and set the stop signal.
\* Stated for audio_sender, the loop that can meet all three.
C15_FailureEndsLoop ==
    afault # "none" =>
       /\ pc["audio"] = "end"
       /\ tdlog["audio"] = AudioTeardownSteps
       /\ stop

(***************************************************************************)
(* Further claims about AACEncoder, checked under EncSpec.                 *)
(***************************************************************************)
\* C17: the terminator None is on the queue only when the child has exited
\* and none of its output is unread: every chunk it produced was returned
\* by get_packets or is on the queue ahead of the terminator.
C17_SentinelAfterAllOutput ==
    (NoneItem \in Range(queue)) =>
       /\ pstate = "exited"
       /\ pipe = <<>>
       /\ \A c \in 1..nchunks :
             \/ c \in returned
             \/ \E j \in 1..(FirstNone(queue) - 1) : queue[j] = c
\* close() is past line 214 and has not returned
InClose == cpc # "idle"

\* C18: close() on a started pipeline closes the child's input first,
\* requests termination only if the child is alive, force-kills only when
\* the bounded wait that follows timed out, and has released the handle
\* whenever it returns.
C18_CloseEscalates ==
    /\ [](cpc \in {"close_poll", "close_wait", "close_finally"} => ~stdinOpen)
    /\ [][/\ terminates' > terminates =>
                (cpc = "close_poll" /\ ~stdinOpen /\ pstate = "running")
          /\ kills' > kills =>
                (cpc = "close_wait" /\ terminates' > 0 /\ pstate = "running")
          /\ (InClose /\ ~InClose') => proc' = "None"]_vars

\* a close() that went through the whole escalation has returned
C18_Witness ==
    /\ lastCall = "close"
    /\ cpc = "idle"
    /\ terminates > 0
    /\ kills > 0
    /\ proc = "None"
    /\ ~stdinOpen

(***************************************************************************)
(* Claims about run_client's order of steps, checked under Spec.           *)
(***************************************************************************)
\* how far run_client has come
RcRank(r) ==
    CASE r = "init" -> 0
      [] r = "warmup" -> 1
      [] r = "text" -> 2
      [] r = "wait" -> 3
      [] r = "grace" -> 4
      [] r \in {"done", "raised"} -> 5

\* the step in which run_client hands the initial text envelope to ws.send
TextSendBegins == "text" \in sending' /\ "text" \notin sending

\* C19: recv_loop and every enabled producer are created before the warmup
\* wait begins; the initial text envelope is sent at most once, only when
\* send_initial_text is set, only after the warmup wait is over, and before
\* run_client starts waiting for the first task to complete.
C19_RunClientOrder ==
    /\ [](rc \in {"warmup", "text", "wait"} =>
             \A t \in Tasks : Created(t) <=> outcome[t] # "none")
    /\ [][/\ RcRank(rc') >= RcRank(rc)
          /\ TextSendBegins =>
                /\ opt.text
                /\ rc = (IF opt.warmup THEN "warmup" ELSE "init")
                /\ rc' = "text"
                /\ \A t \in Tasks : Created(t) => outcome'[t] # "none"
          /\ (rc' = "wait" /\ rc # "wait") =>
                /\ "text" \notin sending'
                /\ opt.text => rc = "text"
          /\ (rc' = "raised") => rc \in {"init", "warmup", "text", "raised"}]_vars

\* the warmup wait is over, the text envelope is sent and run_client waits
C19_Witness ==
    /\ opt.warmup
    /\ opt.text
    /\ opt.audio
    /\ opt.video
    /\ opt.vital
    /\ rc = "wait"
    /\ "text" \notin sending

(***************************************************************************)
(* Claims about video_sender's use of its encoder, checked under Spec.     *)
(***************************************************************************)
\* encoder.flush() was called
Flushed == "flush" \in Range(tdlog["video"])

\* a step in which video_sender calls encoder.encode(): it comes from the
\* loop test and goes to the send of line 225 or the sleep of line 228
VideoEncodes ==
    /\ pc["video"] \in {"start", "sleep"}
    /\ pc'["video"] \in {"send", "sleep"}

\* C20: once video_sender has entered its loop, encoder.flush() is called
\* exactly once on every exit path, after the last encode(); no encode()
\* follows flush().
C20_FlushOnceAtEnd ==
    /\ [](("video" \in running /\ outcome["video"] \notin {"none", "pending"})
             => Count(tdlog["video"], "flush") = 1)
    /\ [](Count(tdlog["video"], "flush") <= 1)
    /\ [][Flushed => (~VideoEncodes /\ pc'["video"] \in {"fsend", "end"})]_vars

\* video_sender has handed two envelopes to ws.send, flushed, and ended
C20_Witness ==
    /\ "video" \in running
    /\ outcome["video"] \notin {"none", "pending"}
    /\ Len(sent["video"]) >= 2
    /\ Flushed

(***************************************************************************)
(* Claims about the drain thread racing with close(), checked under        *)
(* EncSpec.                                                                *)
(***************************************************************************)
\* C21: whatever the interleaving with close(), a drain thread that has
\* ended ended at line 190, having put the terminator None on the queue as
\* its last action; it never ends without it, and never puts it twice.
C21_DrainEndsWithSentinel ==
    /\ DrainEnded => dpc = "done"
    /\ Count(queue, NoneItem) <= 1

(***************************************************************************)
(* Claims about the ways out of run_client, checked under Spec.            *)
(***************************************************************************)
\* the step in which run_client returns or raises
RcExits == rc' \in {"done", "raised"} /\ rc \notin {"done", "raised"}

\* C22: on every way out of run_client after the tasks were created, a
\* failure of the initial text send included, the stop signal is set and
\* cancellation has been requested on every created task: on those still
\* pending it is requested now, or was when the grace sleep began.
C22_ExitSetsStopAndCancels ==
    [][/\ (rc' = "grace" /\ rc # "grace") =>
             \A t \in Tasks : outcome'[t] = "pending" => cancelReq'[t]
       /\ RcExits =>
             /\ stop'
             /\ \A t \in Tasks :
                   outcome'[t] = "pending" => (cancelReq'[t] \/ rc = "grace")]_vars

=============================================================================
